---- MODULE Spec2Model ----
(***************************************************************************)
(* Model of the pixels collaborative canvas server (app/main.py,           *)
(* app/database.py, app/redis_cache.py, app/rate_limiter.py,               *)
(* app/models.py).                                                         *)
(*                                                                         *)
(* Time is counted in milliseconds and tokens in hundredths of a token,    *)
(* so that the float arithmetic of the token bucket is exact on integers.  *)
(* An optional value (None in the source) is the empty sequence <<>>, a    *)
(* present value v is <<v>>.                                               *)
(***************************************************************************)
EXTENDS Integers, Sequences, FiniteSets, TLC

\* ------------------------------------------------------------------ bounds
canvas_width == 2          \* x ranges over 0 .. canvas_width-1 (900 in the source)
canvas_height == 1         \* y ranges over 0 .. canvas_height-1 (900 in the source)
MaxMsgs == 2               \* frames the clients send in one behaviour of Spec
MaxLockOps == 2            \* lock creations/removals in one behaviour of Spec
MaxHttp == 1               \* GET /canvas and GET /locks requests in one behaviour of Spec
BurstN == 25               \* edits of the burst of SpecBurst
BucketHorizon == 1500      \* ms of clock explored by SpecBucket
MinuteHorizon == 60000     \* ms of clock explored by SpecMinute
IngressN == 103            \* frames one user sends in one behaviour of SpecIngress
IngressHorizon == 10000    \* ms of clock explored by SpecIngress
MaxSnapshots == 2          \* GET /canvas requests in one behaviour of SpecSnapshot
SweepHorizon == 302000     \* ms of clock explored by SpecSweep

\* ------------------------------------------------------- program constants
capacity == 10             \* WebSocketRateLimiter.capacity
burst_capacity == 20       \* WebSocketRateLimiter.burst_capacity
refill_rate == 10          \* WebSocketRateLimiter.refill_rate, tokens per second
window == 60               \* RedisRateLimiter.window, seconds
max_pixels == 100          \* RedisRateLimiter.max_pixels
MsPerSecond == 1000        \* time.time() counts seconds; the model counts ms
TokenScale == 100          \* TokenBucket.tokens is a float; the model counts 1/100 token
flush_interval_ms == 50    \* asyncio.sleep(0.05), the batching window

Conns == {"c1", "c2"}
Users == {"u1"}

None == <<>>
Some(v) == <<v>>
IsSome(o) == o # <<>>
Val(o) == o[1]

Min(a, b) == IF a <= b THEN a ELSE b

\* ------------------------------------------------------------ data model
Coords == (0 .. canvas_width - 1) \X (0 .. canvas_height - 1)

\* A color string "#RRGGBB" is the sequence of its six hex digits; a string
\* that does not match ^#[0-9A-Fa-f]{6}$ is any other sequence.
Red == <<15, 15, 0, 0, 0, 0>>
Black == <<0, 0, 0, 0, 0, 0>>
BadColor == <<27, 14, 13>>

ValidColor(c) == Len(c) = 6 /\ \A i \in 1 .. 6 : c[i] \in 0 .. 15

\* models.py PixelUpdate: the field constraints checked by the constructor,
\* and datetime.fromisoformat(pixel_data["clientTimestamp"]) of main.py.
ValidPixelUpdate(p) ==
    /\ p.x >= 0 /\ p.x < canvas_width
    /\ p.y >= 0 /\ p.y < canvas_height
    /\ ValidColor(p.color)
    /\ p.tool \in {"brush", "eraser"}
    /\ p.ts

\* tuple(int(update.color[i:i+2], 16) for i in (1, 3, 5))
ColorRGB(c) == <<16 * c[1] + c[2], 16 * c[3] + c[4], 16 * c[5] + c[6]>>

White == <<255, 255, 255>>

\* np.zeros((900, 900, 3), dtype=np.uint8)
ZeroBitmap == [p \in Coords |-> <<0, 0, 0>>]

\* hashlib.sha256(bitmap_bytes).hexdigest(): collision-free on the bitmaps
\* of the model, and not the bitmap itself.
Sha256(bitmap) == <<"sha256", bitmap>>

\* gzip.compress / gzip.decompress of database.py
Compress(bitmap) == <<"gzip", bitmap>>
Decompress(z) == z[2]

\* pickle.dumps / pickle.loads of redis_cache.py
Pickle(v) == <<"pickle", v>>
Unpickle(d) == d[2]

\* The payloads a client sends in pixel:update frames.
Payloads ==
    { [x |-> 0, y |-> 0, color |-> Red, tool |-> "brush", ts |-> TRUE],
      [x |-> 1, y |-> 0, color |-> Red, tool |-> "brush", ts |-> TRUE],
      [x |-> 0, y |-> 0, color |-> Black, tool |-> "eraser", ts |-> TRUE],
      [x |-> canvas_width, y |-> 0, color |-> Red, tool |-> "brush", ts |-> TRUE],
      [x |-> 0, y |-> 0, color |-> BadColor, tool |-> "brush", ts |-> TRUE] }

\* The rectangles moderators lock (models.py RegionLock; identity is the tuple).
Rect(a, b, c, d) == [x1 |-> a, y1 |-> b, x2 |-> c, y2 |-> d]
LockRects == { Rect(0, 0, 0, 0), Rect(1, 0, 1, 0) }

\* The outcome of the external calls of one handler run: cache read, cache
\* write, persistence read (ClientError), persistence write, and the index
\* of the edit of a batch whose audit append raises (0: none).
Faults == [cr : BOOLEAN, cw : BOOLEAN, dr : BOOLEAN, dw : BOOLEAN]
NoFault == [cr |-> TRUE, cw |-> TRUE, dr |-> TRUE, dw |-> TRUE]

\* ------------------------------------------------- rate_limiter.py
\* NewBucket seeded with self.capacity instead of self.burst_capacity.
NewBucketCapacity(t) ==
    [capacity |-> burst_capacity * TokenScale,
     tokens |-> capacity * TokenScale,
     last_refill |-> t]

\* TokenBucket(capacity=burst_capacity, refill_rate, tokens=burst_capacity,
\* last_refill=current_time): a bucket is created full.
NewBucket(t) ==
    [capacity |-> burst_capacity * TokenScale,
     tokens |-> burst_capacity * TokenScale,
     last_refill |-> t]

\* Refill without the min(capacity, ...) cap.
RefillUncapped(b, t) ==
    [b EXCEPT !.tokens = b.tokens + ((t - b.last_refill) * refill_rate * TokenScale)
                                      \div MsPerSecond,
              !.last_refill = t]

\* tokens = min(capacity, tokens + time_elapsed * refill_rate); last_refill = now
Refill(b, t) ==
    [b EXCEPT !.tokens = Min(b.capacity,
                             b.tokens + ((t - b.last_refill) * refill_rate * TokenScale)
                                          \div MsPerSecond),
              !.last_refill = t]

\* WebSocketRateLimiter.check_rate_limit(user_id, pixel_count=1) on the
\* optional bucket bk of the user at time t.
BucketCheck(bk, t) ==
    LET b == Refill(IF IsSome(bk) THEN Val(bk) ELSE NewBucket(t), t)
    IN  IF b.tokens >= TokenScale
        THEN [allowed |-> TRUE, bucket |-> Some([b EXCEPT !.tokens = b.tokens - TokenScale])]
        ELSE [allowed |-> FALSE, bucket |-> Some(b)]

\* WebSocketRateLimiter.get_remaining_tokens: refills, returns int(tokens)
RemainingTokens(bk, t) ==
    IF IsSome(bk)
    THEN [remaining |-> Refill(Val(bk), t).tokens \div TokenScale,
          bucket |-> Some(Refill(Val(bk), t))]
    ELSE [remaining |-> burst_capacity, bucket |-> bk]

\* WebSocketRateLimiter.cleanup_old_buckets: drops a bucket idle for > 300 s
idle_bucket_ttl == 300

\* The sweep with its threshold taken in ms: it drops a bucket idle for > 0.3 s.
CleanupBucketMs(bk, t) ==
    IF IsSome(bk) /\ t - Val(bk).last_refill > idle_bucket_ttl
    THEN None ELSE bk

CleanupBucket(bk, t) ==
    IF IsSome(bk) /\ t - Val(bk).last_refill > idle_bucket_ttl * MsPerSecond
    THEN None ELSE bk

\* ------------------------------------------------- redis counters
\* A counter key is [count, expire_at]; expire_at = NoTTL when the key
\* carries no expiry.  Redis drops a key once its expiry has passed.
NoTTL == -1
LiveCount(cnt, t) ==
    IF IsSome(cnt) /\ (Val(cnt).expire_at = NoTTL \/ t < Val(cnt).expire_at)
    THEN Val(cnt).count ELSE 0

\* The outcome of the two redis calls of increment_pixel_count.
RedisFaults == [incr : BOOLEAN, expire : BOOLEAN]
RedisUp == [incr |-> TRUE, expire |-> TRUE]

\* increment_pixel_count that reports a redis error as a count above any limit.
IncrementPixelCountFailClosed(cnt, t, rf) ==
    LET n == LiveCount(cnt, t) + 1
    IN  IF ~rf.incr THEN [count |-> max_pixels + 1, counter |-> cnt]
        ELSE IF n = 1
             THEN IF rf.expire
                  THEN [count |-> 1,
                        counter |-> Some([count |-> 1,
                                          expire_at |-> t + window * MsPerSecond])]
                  ELSE [count |-> max_pixels + 1,
                        counter |-> Some([count |-> 1, expire_at |-> NoTTL])]
             ELSE [count |-> n, counter |-> Some([Val(cnt) EXCEPT !.count = n])]

\* RedisCache.increment_pixel_count(user_id, window): INCR, then EXPIRE when
\* the count is 1; any redis error makes it return 0.
IncrementPixelCount(cnt, t, rf) ==
    LET n == LiveCount(cnt, t) + 1
    IN  IF ~rf.incr THEN [count |-> 0, counter |-> cnt]
        ELSE IF n = 1
             THEN IF rf.expire
                  THEN [count |-> 1,
                        counter |-> Some([count |-> 1,
                                          expire_at |-> t + window * MsPerSecond])]
                  ELSE [count |-> 0,
                        counter |-> Some([count |-> 1, expire_at |-> NoTTL])]
             ELSE [count |-> n, counter |-> Some([Val(cnt) EXCEPT !.count = n])]

\* The window check with the pre-increment count: current_count - 1 <= max_pixels.
WindowAdmitsPreIncrement(count) == count - 1 <= max_pixels

\* RedisRateLimiter.check_rate_limit: current_count <= self.max_pixels
WindowAdmits(count) == count <= max_pixels

\* check_pixel_rate_limit with the window counter consulted before the bucket.
CheckPixelRateLimitWindowFirst(bk, cnt, t, rf) ==
    LET tb == BucketCheck(bk, t)
        inc == IncrementPixelCount(cnt, t, rf)
    IN  IF ~WindowAdmits(inc.count)
        THEN [allowed |-> FALSE, reason |-> "Minute rate limit exceeded.",
              bucket |-> bk, counter |-> inc.counter]
        ELSE IF ~tb.allowed
        THEN [allowed |-> FALSE, reason |-> "Rate limit exceeded.",
              bucket |-> RemainingTokens(tb.bucket, t).bucket, counter |-> inc.counter]
        ELSE [allowed |-> TRUE, reason |-> "Rate limit OK.",
              bucket |-> tb.bucket, counter |-> inc.counter]

\* check_pixel_rate_limit(user_id): token bucket first, then the window
\* counter; the reason names the denying limiter.
CheckPixelRateLimit(bk, cnt, t, rf) ==
    LET tb == BucketCheck(bk, t)
        inc == IncrementPixelCount(cnt, t, rf)
    IN  IF ~tb.allowed
        THEN [allowed |-> FALSE, reason |-> "Rate limit exceeded.",
              bucket |-> RemainingTokens(tb.bucket, t).bucket, counter |-> cnt]
        ELSE IF ~WindowAdmits(inc.count)
        THEN [allowed |-> FALSE, reason |-> "Minute rate limit exceeded.",
              bucket |-> tb.bucket, counter |-> inc.counter]
        ELSE [allowed |-> TRUE, reason |-> "Rate limit OK.",
              bucket |-> tb.bucket, counter |-> inc.counter]

\* ------------------------------------------------- database.py / redis_cache.py
\* DynamoDBCanvas.get_canvas_state: cache first (a cache error is a miss),
\* then the table (ClientError is a miss); a table hit refreshes the cache.
GetCanvasState(cache, db, f) ==
    IF f.cr /\ IsSome(cache)
    THEN [state |-> Some(Unpickle(Val(cache))), cache |-> cache]
    ELSE IF f.dr /\ IsSome(db)
    THEN LET cs == [bitmap |-> Decompress(Val(db).bitmap), hash |-> Val(db).hash]
         IN  [state |-> Some(cs),
              cache |-> IF f.cw THEN Some(Pickle(cs)) ELSE cache]
    ELSE [state |-> None, cache |-> cache]

\* DynamoDBCanvas.save_canvas_state: put_item, then set the cache entry
\* (RedisCache.set_canvas_state swallows a cache error).  The caller checks
\* f.dw: a failed put_item raises before anything is written.
SaveCanvasState(cache, bitmap, hash, f) ==
    [db |-> Some([bitmap |-> Compress(bitmap), hash |-> hash]),
     cache |-> IF f.cw THEN Some(Pickle([bitmap |-> bitmap, hash |-> hash]))
               ELSE cache]

\* DynamoDBCanvas.get_region_locks: a non-empty cached list is returned as
\* it is; otherwise the table is scanned and the result cached; a
\* ClientError of the scan yields the empty list.
GetRegionLocks(cache, db, f) ==
    IF f.cr /\ IsSome(cache) /\ Unpickle(Val(cache)) # {}
    THEN [locks |-> Unpickle(Val(cache)), cache |-> cache]
    ELSE IF f.dr
    THEN [locks |-> db, cache |-> IF f.cw THEN Some(Pickle(db)) ELSE cache]
    ELSE [locks |-> {}, cache |-> cache]

\* lock.x1 <= x <= lock.x2 and lock.y1 <= y <= lock.y2 for some lock
Covers(locks, x, y) ==
    \E l \in locks : l.x1 <= x /\ x <= l.x2 /\ l.y1 <= y /\ y <= l.y2

\* ------------------------------------------------- state
VARIABLES
    now,                 \* time.time(), in ms
    buckets,             \* ws_rate_limiter.buckets: user -> optional TokenBucket
    counters,            \* redis keys rate_limit:pixels:<user>: user -> optional counter
    shadow,              \* history: the buckets the same calls leave when
                         \*   cleanup_old_buckets never runs
    active_connections,  \* main.active_connections
    handler,             \* per connection: "new", "open" (in its receive loop), "closed"
    outbox,              \* per connection: the frames sent to the client, in order
    pixel_update_queue,  \* main.pixel_update_queue
    task,                \* the batch_pixel_updates task: where it is and its locals
    db_canvas,           \* table pixels-canvas, item "main" (optional)
    cache_canvas,        \* redis key canvas:state (optional)
    db_locks,            \* table pixels-locks: the set of locks, keyed by lock_id
    cache_locks,         \* redis key canvas:locks (optional)
    audit,               \* table pixels-audit, in append order
    received,            \* history: the pixel:update frames read, [id, conn]
    rejected,            \* history: ids of the edits answered with pixel:reject
    applied,             \* history: ids of the edits written by a persisted flush
    postFlush,           \* history: hash broadcast by the last flush and the
                         \*   snapshot a read returns right after it
    bdone,               \* history: numbers of the batches whose broadcast returned
    admitted,            \* history: ids of the edits appended to the queue, in order
    published,           \* history: the ids of the pixel:bulk_update messages built, in order
    handed,              \* history: the ids of the batches handed to
                         \*   process_pixel_batch, in order
    response,            \* history: the answer to the last GET /canvas (optional)
    batch_task,          \* main.batch_task: "running", "cancelling" (cancel() was
                         \*   called and the task goes on), "done"
    win,                 \* history: a time window and the admissions counted in it
    ops                  \* history: how many frames, lock operations, requests, flushes

vars == <<now, buckets, counters, shadow, active_connections, handler, outbox,
          pixel_update_queue, task, db_canvas, cache_canvas, db_locks,
          cache_locks, audit, received, rejected, applied, postFlush, bdone,
          admitted, published, handed, response, batch_task, win, ops>>

limiterVars == <<now, buckets, counters, shadow, win>>
storeVars == <<db_canvas, cache_canvas, db_locks, cache_locks, audit>>
socketVars == <<active_connections, handler, outbox>>
historyVars == <<received, rejected, applied, postFlush, bdone, admitted, published,
                 handed, response>>

\* The frames of the wire protocol, with the ids of the edits they are about.
Frame(type, reason, pixels, ids, hash, batch) ==
    [type |-> type, reason |-> reason, pixels |-> pixels, ids |-> ids,
     hash |-> hash, batch |-> batch]
RejectFrame(reason, id) == Frame("pixel:reject", reason, <<>>, <<id>>, None, 0)
AckFrame == Frame("heartbeat:ack", "", <<>>, <<>>, None, 0)

Idle == [pc |-> "sleep", batch |-> <<>>, acks |-> <<>>, e |-> "", msg |-> None,
         cur |-> None, visited |-> {}, members |-> {}, disconnected |-> {}]

Init ==
    /\ now = 0
    /\ buckets = [u \in Users |-> None]
    /\ counters = [u \in Users |-> None]
    /\ shadow = [u \in Users |-> None]
    /\ active_connections = {}
    /\ handler = [c \in Conns |-> "new"]
    /\ outbox = [c \in Conns |-> <<>>]
    /\ pixel_update_queue = <<>>
    /\ task = Idle
    /\ db_canvas = None
    /\ cache_canvas = None
    /\ db_locks = {}
    /\ cache_locks = None
    /\ audit = <<>>
    /\ received = {}
    /\ rejected = {}
    /\ applied = {}
    /\ postFlush = None
    /\ bdone = {}
    /\ admitted = <<>>
    /\ published = <<>>
    /\ handed = <<>>
    /\ response = None
    /\ batch_task = "running"
    /\ win = [start |-> -1, admits |-> 0, key |-> 0]
    /\ ops = [msgs |-> 0, locks |-> 0, http |-> 0, flushes |-> 0]

\* ------------------------------------------------- websocket_endpoint
\* await websocket.accept(); active_connections.add(websocket)
Connect(c) ==
    /\ handler[c] = "new"
    /\ handler' = [handler EXCEPT ![c] = "open"]
    /\ active_connections' = active_connections \cup {c}
    /\ UNCHANGED <<limiterVars, storeVars, historyVars, outbox,
                   pixel_update_queue, task, batch_task, ops>>

\* The handler leaves its loop: active_connections.discard(websocket)
Leave(c) ==
    /\ handler' = [handler EXCEPT ![c] = "closed"]
    /\ active_connections' = active_connections \ {c}

\* send_text that puts the frame on the wire twice.
SendTextTwice(box, frame) == Append(Append(box, frame), frame)

\* websocket.send_text(...) of the handler
SendText(box, frame) == Append(box, frame)

\* receive_text raises WebSocketDisconnect
WsDisconnect(c) ==
    /\ handler[c] = "open"
    /\ Leave(c)
    /\ UNCHANGED <<limiterVars, storeVars, historyVars, outbox,
                   pixel_update_queue, task, batch_task, ops>>

\* A frame that json.loads rejects: the exception leaves the loop.
WsInvalidJson(c) ==
    /\ handler[c] = "open"
    /\ ops' = [ops EXCEPT !.msgs = @ + 1]
    /\ Leave(c)
    /\ UNCHANGED <<limiterVars, storeVars, historyVars, outbox,
                   pixel_update_queue, task, batch_task>>

\* A JSON object whose type is neither pixel:update nor heartbeat.
WsUnknown(c) ==
    /\ handler[c] = "open"
    /\ ops' = [ops EXCEPT !.msgs = @ + 1]
    /\ UNCHANGED <<limiterVars, storeVars, historyVars, socketVars,
                   pixel_update_queue, task, batch_task>>

\* {"type": "heartbeat"}
WsHeartbeat(c) ==
    /\ handler[c] = "open"
    /\ ops' = [ops EXCEPT !.msgs = @ + 1]
    /\ outbox' = [outbox EXCEPT ![c] = SendText(@, AckFrame)]
    /\ UNCHANGED <<limiterVars, storeVars, historyVars, active_connections,
                   handler, pixel_update_queue, task, batch_task>>

\* The PixelUpdate the handler appends; id, conn and free (the position was
\* covered by no lock of the table when the edit was submitted) are history.
Update(id, c, u, p) ==
    [id |-> id, conn |-> c, user_id |-> u, x |-> p.x, y |-> p.y,
     color |-> p.color, tool |-> p.tool, free |-> ~Covers(db_locks, p.x, p.y)]

\* {"type": "pixel:update", "data": p} from user u at time t: rate limits,
\* then the PixelUpdate constructor, then the append.
HandlePixelUpdate(c, u, p, t, rf) ==
    LET id == Cardinality(received) + 1
        rl == CheckPixelRateLimit(buckets[u], counters[u], t, rf)
    IN  /\ handler[c] = "open"
        /\ buckets' = [buckets EXCEPT ![u] = rl.bucket]
        /\ shadow' = [shadow EXCEPT
                         ![u] = CheckPixelRateLimit(@, counters[u], t, rf).bucket]
        /\ counters' = [counters EXCEPT ![u] = rl.counter]
        /\ received' = received \cup {[id |-> id, conn |-> c]}
        /\ IF ~rl.allowed
           THEN /\ outbox' = [outbox EXCEPT ![c] = SendText(@, RejectFrame(rl.reason, id))]
                /\ rejected' = rejected \cup {id}
                /\ UNCHANGED <<active_connections, handler, pixel_update_queue,
                               admitted>>
           ELSE IF ~ValidPixelUpdate(p)
           THEN /\ Leave(c)
                /\ UNCHANGED <<outbox, rejected, pixel_update_queue, admitted>>
           ELSE /\ pixel_update_queue' = Append(pixel_update_queue, Update(id, c, u, p))
                /\ admitted' = Append(admitted, id)
                /\ UNCHANGED <<socketVars, rejected>>

WsPixelUpdate(c, u, p) ==
    /\ ops' = [ops EXCEPT !.msgs = @ + 1]
    /\ HandlePixelUpdate(c, u, p, now, RedisUp)
    /\ UNCHANGED <<now, win, storeVars, applied, postFlush, bdone, published,
                   handed, response, task, batch_task>>

\* ------------------------------------------------- process_pixel_batch
\* AuditLogEntry(user_id, action="pixel_update", details={x, y, color, tool})
AuditOf(u) ==
    [id |-> u.id, user_id |-> u.user_id, action |-> "pixel_update",
     x |-> u.x, y |-> u.y, color |-> u.color, tool |-> u.tool]

\* bitmap[update.y, update.x] = [255, 255, 255] for the eraser, color_rgb otherwise
WritePixel(bitmap, u) ==
    [bitmap EXCEPT ![<<u.x, u.y>>] = IF u.tool = "eraser" THEN White
                                     ELSE ColorRGB(u.color)]

\* The loop over the batch, from its i-th edit on.  locks is what
\* is_position_locked sees.  writable is FALSE when the bitmap is
\* np.frombuffer(canvas_state.bitmap): an array over a bytes object is
\* read-only and the first pixel assignment raises ValueError.  af is the
\* index of the edit whose add_audit_entry raises (0: none).  The result
\* holds what was done up to the end of the loop or up to the exception e.
RECURSIVE ApplyBatch(_, _, _, _, _, _)
ApplyBatch(bitmap, writable, batch, i, locks, af) ==
    IF i > Len(batch)
    THEN [bitmap |-> bitmap, acks |-> <<>>, rejects |-> <<>>, audits |-> <<>>,
          raised |-> FALSE, e |-> ""]
    ELSE LET u == batch[i]
         IN  IF Covers(locks, u.x, u.y)
             THEN LET r == ApplyBatch(bitmap, writable, batch, i + 1, locks, af)
                  IN  [r EXCEPT !.rejects = <<u>> \o @]
             ELSE IF ~writable
             THEN [bitmap |-> bitmap, acks |-> <<>>, rejects |-> <<>>,
                   audits |-> <<>>, raised |-> TRUE, e |-> "ValueError"]
             ELSE IF af = i
             THEN [bitmap |-> WritePixel(bitmap, u), acks |-> <<u>>,
                   rejects |-> <<>>, audits |-> <<>>, raised |-> TRUE,
                   e |-> "ClientError(audit)"]
             ELSE LET r == ApplyBatch(WritePixel(bitmap, u), writable, batch,
                                      i + 1, locks, af)
                  IN  [r EXCEPT !.acks = <<u>> \o @,
                                !.audits = <<AuditOf(u)>> \o @]

Ids(edits) == [i \in 1 .. Len(edits) |-> edits[i].id]
IdSet(edits) == {edits[i].id : i \in 1 .. Len(edits)}

\* "pixels": [{"x": p.x, "y": p.y, "color": p.color} for p in batch]
Pixels(batch) ==
    [i \in 1 .. Len(batch) |-> [x |-> batch[i].x, y |-> batch[i].y,
                                color |-> batch[i].color]]

\* The loop goes on without awaiting process_pixel_batch.
CanTickNoAwait(t) == TRUE

\* The loop ends with the first exception of process_pixel_batch.
CanTickUntilError(t) == t.pc = "sleep" /\ t.e = ""

\* batch_pixel_updates goes round its loop only after process_pixel_batch,
\* which it awaits, has returned or raised.
CanTick(t) == t.pc = "sleep"

\* Only the first entry of a batch reaches the audit table.
AddAuditEntriesFirstOnly(table, entries) ==
    table \o (IF entries = <<>> THEN <<>> ELSE <<entries[1]>>)

\* DynamoDBCanvas.add_audit_entry, once per entry: put_item on the audit table
AddAuditEntries(table, entries) == table \o entries

\* process_pixel_batch that goes on when put_item of save_canvas_state fails.
BatchErrorLoopOnly(r, f) == IF r.raised THEN r.e ELSE ""

\* The exception process_pixel_batch raises before its broadcast ("": none):
\* that of its loop, or the ClientError of put_item in save_canvas_state.
BatchError(r, f) ==
    IF r.raised THEN r.e ELSE IF ~f.dw THEN "ClientError(canvas)" ELSE ""

\* The queue is copied and left as it is.
CaptureNoClear(queue) == [batch |-> queue, rest |-> queue]

\* batch = pixel_update_queue.copy(); pixel_update_queue.clear(): the batch
\* taken and what the queue holds afterwards.
Capture(queue) == [batch |-> queue, rest |-> <<>>]

\* One tick of batch_pixel_updates with a non-empty queue: copy and clear
\* the queue, then process_pixel_batch up to its first suspension, which is
\* the first send of broadcast_message.  An exception of process_pixel_batch
\* is caught by the loop and the batch is gone.
FlushTick(f, af) ==
    LET batch == Capture(pixel_update_queue).batch
        n == ops.flushes + 1
        gs == GetCanvasState(cache_canvas, db_canvas, f)
        bitmap0 == IF IsSome(gs.state) THEN Val(gs.state).bitmap ELSE ZeroBitmap
        lk == GetRegionLocks(cache_locks, db_locks, f)
        r == ApplyBatch(bitmap0, ~IsSome(gs.state), batch, 1, lk.locks, af)
        hash_value == Sha256(r.bitmap)
        sv == SaveCanvasState(gs.cache, r.bitmap, hash_value, f)
        msg == Frame("pixel:bulk_update", "", Pixels(batch), Ids(batch),
                     Some(hash_value), n)
        done == [Idle EXCEPT !.batch = batch, !.acks = r.acks]
    IN  /\ CanTick(task)
        /\ pixel_update_queue # <<>>
        /\ af \in 0 .. Len(batch)
        /\ pixel_update_queue' = Capture(pixel_update_queue).rest
        /\ handed' = Append(handed, Ids(batch))
        /\ ops' = [ops EXCEPT !.flushes = n]
        /\ cache_locks' = lk.cache
        /\ audit' = AddAuditEntries(audit, r.audits)
        /\ IF BatchError(r, f) # ""
           THEN /\ cache_canvas' = gs.cache
                /\ task' = [done EXCEPT !.e = BatchError(r, f)]
                /\ postFlush' = None
                /\ UNCHANGED <<db_canvas, applied, bdone, published>>
           ELSE /\ db_canvas' = sv.db
                /\ cache_canvas' = sv.cache
                /\ applied' = applied \cup IdSet(r.acks)
                /\ published' = Append(published, Ids(batch))
                /\ IF active_connections = {}
                   THEN /\ task' = done
                        /\ bdone' = bdone \cup {n}
                        /\ postFlush' = None
                   ELSE /\ \E c \in active_connections :
                             task' = [done EXCEPT !.pc = "sending",
                                                  !.msg = Some(msg),
                                                  !.cur = Some(c),
                                                  !.members = active_connections]
                        /\ postFlush' =
                             Some([hash |-> hash_value,
                                   snapshot |-> GetCanvasState(sv.cache, sv.db, NoFault).state])
                        /\ UNCHANGED bdone
        /\ UNCHANGED <<limiterVars, socketVars, db_locks, received, rejected,
                       admitted, response, batch_task>>

\* ------------------------------------------------- broadcast_message
\* The await of connection.send_text in broadcast_message ends: the frame
\* went out (sent) or not, and the await returns or raises into the bare
\* except.  Then the for loop asks the set iterator for the next
\* connection: the iterator raises RuntimeError when the set changed size,
\* else yields a connection not visited yet, or ends and the connections
\* whose send raised are removed.
AwaitSendText(sent, raised) ==
    LET c == Val(task.cur)
        msg == Val(task.msg)
        delivered == sent /\ handler[c] = "open"
        disc == IF delivered /\ ~raised THEN task.disconnected
                ELSE task.disconnected \cup {c}
        visited == task.visited \cup {c}
        cand == active_connections \ visited
    IN  /\ task.pc = "sending"
        /\ outbox' = IF delivered THEN [outbox EXCEPT ![c] = Append(@, msg)] ELSE outbox
        /\ IF Cardinality(active_connections) # Cardinality(task.members)
           THEN /\ task' = [Idle EXCEPT !.batch = task.batch, !.acks = task.acks,
                                         !.e = "RuntimeError"]
                /\ bdone' = bdone \cup {msg.batch}
                /\ UNCHANGED active_connections
           ELSE \/ /\ cand \cap task.members = {}
                   /\ active_connections' = active_connections \ disc
                   /\ task' = [Idle EXCEPT !.batch = task.batch, !.acks = task.acks]
                   /\ bdone' = bdone \cup {msg.batch}
                \/ \E d \in cand :
                     /\ task' = [task EXCEPT !.cur = Some(d), !.visited = visited,
                                             !.disconnected = disc]
                     /\ UNCHANGED <<active_connections, bdone>>
        /\ UNCHANGED <<limiterVars, storeVars, handler, pixel_update_queue,
                       received, rejected, applied, postFlush, admitted,
                       published, handed, response, ops>>

\* The send awaited by broadcast_message completes (ok) or raises.
BroadcastStep(ok) == AwaitSendText(ok, ~ok) /\ UNCHANGED batch_task

\* ------------------------------------------------- lifespan
\* Shutdown: batch_task.cancel(), then await batch_task.  CancelledError is
\* thrown into the task where it is suspended.  In asyncio.sleep it leaves
\* the while loop (it is no Exception) and the task ends.  In send_text it
\* is caught by the bare except of broadcast_message, which takes the
\* connection for disconnected and goes on: the task does not end.
Cancel ==
    /\ batch_task = "running"
    /\ \/ /\ task.pc = "sleep"
          /\ task' = [task EXCEPT !.pc = "cancelled"]
          /\ batch_task' = "done"
          /\ UNCHANGED <<limiterVars, storeVars, socketVars, historyVars,
                         pixel_update_queue, ops>>
       \/ /\ batch_task' = "cancelling"
          /\ \E sent \in BOOLEAN : AwaitSendText(sent, TRUE)

\* ------------------------------------------------- HTTP handlers
\* POST /locks: DynamoDBCanvas.add_region_lock puts the item
AddRegionLock(l) ==
    /\ ops' = [ops EXCEPT !.locks = @ + 1]
    /\ db_locks' = db_locks \cup {l}
    /\ UNCHANGED <<limiterVars, socketVars, historyVars, pixel_update_queue,
                   task, batch_task, db_canvas, cache_canvas, cache_locks, audit>>

\* DELETE /locks/...: DynamoDBCanvas.remove_region_lock deletes the item
RemoveRegionLock(l) ==
    /\ ops' = [ops EXCEPT !.locks = @ + 1]
    /\ db_locks' = db_locks \ {l}
    /\ UNCHANGED <<limiterVars, socketVars, historyVars, pixel_update_queue,
                   task, batch_task, db_canvas, cache_canvas, cache_locks, audit>>

\* GET /locks
GetLocks(f) ==
    /\ ops' = [ops EXCEPT !.http = @ + 1]
    /\ cache_locks' = GetRegionLocks(cache_locks, db_locks, f).cache
    /\ UNCHANGED <<limiterVars, socketVars, historyVars, pixel_update_queue,
                   task, batch_task, db_canvas, cache_canvas, db_locks, audit>>

\* The canvas get_canvas builds with an all-white bitmap.
NewCanvasStateWhite == [bitmap |-> [p \in Coords |-> White],
                        hash |-> Sha256([p \in Coords |-> White])]

\* get_canvas: bitmap = np.zeros(...); hash_value = sha256(bitmap_bytes)
NewCanvasState == [bitmap |-> ZeroBitmap, hash |-> Sha256(ZeroBitmap)]

\* The answer of GET /canvas: the status, the CanvasState of the body (its
\* width and height are the defaults of the model class) and, as history,
\* whether the request called save_canvas_state.
CanvasResponse(cs, saved) ==
    Some([status |-> 200, width |-> canvas_width, height |-> canvas_height,
          bitmap |-> cs.bitmap, hash |-> cs.hash, saved |-> saved])
ServerError(saved) ==
    Some([status |-> 500, width |-> 0, height |-> 0, bitmap |-> <<>>,
          hash |-> <<>>, saved |-> saved])

\* GET /canvas: the canvas get_canvas_state returns; when it returns None an
\* all-zero canvas is built, saved and returned.  A put_item that fails in
\* save_canvas_state raises out of the handler.
GetCanvas(f) ==
    LET gs == GetCanvasState(cache_canvas, db_canvas, f)
        new == NewCanvasState
        sv == SaveCanvasState(gs.cache, new.bitmap, new.hash, f)
    IN  /\ ops' = [ops EXCEPT !.http = @ + 1]
        /\ IF IsSome(gs.state)
           THEN /\ cache_canvas' = gs.cache /\ UNCHANGED db_canvas
                /\ response' = CanvasResponse(Val(gs.state), FALSE)
           ELSE IF ~f.dw
           THEN /\ cache_canvas' = gs.cache /\ UNCHANGED db_canvas
                /\ response' = ServerError(TRUE)
           ELSE /\ cache_canvas' = sv.cache /\ db_canvas' = sv.db
                /\ response' = CanvasResponse(new, TRUE)
        /\ UNCHANGED <<limiterVars, socketVars, received, rejected, applied,
                       postFlush, bdone, admitted, published, handed,
                       pixel_update_queue, task, batch_task, db_locks,
                       cache_locks, audit>>

\* GET /canvas when get_canvas_state raises: the cache gave no canvas and
\* get_item raises an error that is no ClientError (the table cannot be
\* reached); get_canvas has no handler for it.
GetCanvasReadRaises(f) ==
    /\ ~(f.cr /\ IsSome(cache_canvas))
    /\ ops' = [ops EXCEPT !.http = @ + 1]
    /\ response' = ServerError(FALSE)
    /\ UNCHANGED <<limiterVars, socketVars, storeVars, received, rejected,
                   applied, postFlush, bdone, admitted, published, handed,
                   pixel_update_queue, task, batch_task>>

\* The TTL of a cache entry runs out (setex ttl of set_canvas_state / set_region_locks)
ExpireCanvasCache ==
    /\ IsSome(cache_canvas)
    /\ cache_canvas' = None
    /\ UNCHANGED <<limiterVars, socketVars, historyVars, pixel_update_queue,
                   task, batch_task, db_canvas, db_locks, cache_locks, audit, ops>>

ExpireLocksCache ==
    /\ IsSome(cache_locks)
    /\ cache_locks' = None
    /\ UNCHANGED <<limiterVars, socketVars, historyVars, pixel_update_queue,
                   task, batch_task, db_canvas, cache_canvas, db_locks, audit, ops>>

\* ------------------------------------------------- specifications
Frames == ops.msgs < MaxMsgs
LockOps == ops.locks < MaxLockOps
Requests == ops.http < MaxHttp

\* Spec: the edit pipeline of one connection over the canvas store: edits,
\* flushes with every outcome of the cache and persistence calls, the
\* broadcast, snapshot requests and cache expiry.
Next ==
    \/ Connect("c1")
    \/ WsDisconnect("c1")
    \/ Frames /\ \E u \in Users, p \in Payloads : WsPixelUpdate("c1", u, p)
    \/ \E f \in Faults, af \in 0 .. MaxMsgs : FlushTick(f, af)
    \/ \E ok \in BOOLEAN : BroadcastStep(ok)
    \/ Requests /\ \E f \in Faults : GetCanvas(f)
    \/ ExpireCanvasCache

Spec == Init /\ [][Next]_vars

\* SpecLocks: the same pipeline with moderation locks and the lock cache.
NextLocks ==
    \/ Connect("c1")
    \/ Frames /\ \E u \in Users, p \in Payloads : WsPixelUpdate("c1", u, p)
    \/ \E f \in Faults, af \in 0 .. MaxMsgs : FlushTick(f, af)
    \/ \E ok \in BOOLEAN : BroadcastStep(ok)
    \/ LockOps /\ \E l \in LockRects : AddRegionLock(l)
    \/ LockOps /\ \E l \in LockRects : RemoveRegionLock(l)
    \/ Requests /\ \E f \in Faults : GetLocks(f)
    \/ ExpireLocksCache

SpecLocks == Init /\ [][NextLocks]_vars

\* SpecAudit: valid brush edits of one connection, locks that are added
\* meanwhile, and flushes with every outcome of the store calls and of the
\* audit appends.
AuditPayloads == {p \in Payloads : ValidPixelUpdate(p) /\ p.tool = "brush"}

NextAudit ==
    \/ Connect("c1")
    \/ Frames /\ \E u \in Users, p \in AuditPayloads : WsPixelUpdate("c1", u, p)
    \/ \E f \in Faults, af \in 0 .. MaxMsgs : FlushTick(f, af)
    \/ \E ok \in BOOLEAN : BroadcastStep(ok)
    \/ LockOps /\ \E l \in LockRects : AddRegionLock(l)

SpecAudit == Init /\ [][NextAudit]_vars

\* SpecPersist: valid brush edits of one connection and flushes with every
\* outcome of the cache and table calls of the canvas, the audit appends
\* succeeding, while the cached canvas expires.
NextPersist ==
    \/ Connect("c1")
    \/ Frames /\ \E u \in Users, p \in AuditPayloads : WsPixelUpdate("c1", u, p)
    \/ \E f \in Faults : FlushTick(f, 0)
    \/ \E ok \in BOOLEAN : BroadcastStep(ok)
    \/ ExpireCanvasCache

SpecPersist == Init /\ [][NextPersist]_vars

\* SpecStall: two subscribers, one of which (StalledConn) never reads, so
\* that a send_text to it never completes; every other send completes or
\* raises, and the flush loop wakes up from its sleep: the event loop runs
\* every task that is ready.
StalledConn == "c1"

LiveSend ==
    /\ task.pc = "sending"
    /\ Val(task.cur) # StalledConn
    /\ \E ok \in BOOLEAN : BroadcastStep(ok)

StallTick == \E f \in Faults : FlushTick(f, 0)

NextStall ==
    \/ \E c \in Conns : Connect(c)
    \/ Frames /\ \E c \in Conns, u \in Users, p \in AuditPayloads :
                     WsPixelUpdate(c, u, p)
    \/ StallTick
    \/ LiveSend

SpecStall ==
    Init /\ [][NextStall]_vars /\ WF_vars(StallTick) /\ WF_vars(LiveSend)

\* SpecShutdown: valid brush edits of one connection, flushes, and the
\* shutdown of the application at any moment; no frame is read once the
\* shutdown has begun.
NextShutdown ==
    \/ Connect("c1")
    \/ /\ Frames /\ batch_task = "running"
       /\ \E u \in Users, p \in AuditPayloads : WsPixelUpdate("c1", u, p)
    \/ \E f \in Faults : FlushTick(f, 0)
    \/ \E ok \in BOOLEAN : BroadcastStep(ok)
    \/ Cancel

SpecShutdown == Init /\ [][NextShutdown]_vars

\* SpecBroadcast: several subscribers that come and go while batches are
\* flushed and broadcast; the edits are one valid and one invalid payload.
BroadcastPayloads == {p \in Payloads : p.color = Red /\ p.x # 1}

NextBroadcast ==
    \/ \E c \in Conns : Connect(c)
    \/ \E c \in Conns : WsDisconnect(c)
    \/ Frames /\ \E c \in Conns, u \in Users, p \in BroadcastPayloads :
                     WsPixelUpdate(c, u, p)
    \/ \E f \in Faults, af \in 0 .. MaxMsgs : FlushTick(f, af)
    \/ \E ok \in BOOLEAN : BroadcastStep(ok)

SpecBroadcast == Init /\ [][NextBroadcast]_vars

\* SpecSocket: the receive loop of the connections and every kind of frame.
NextSocket ==
    \/ \E c \in Conns : Connect(c)
    \/ \E c \in Conns : WsDisconnect(c)
    \/ Frames /\ \E c \in Conns : WsInvalidJson(c)
    \/ Frames /\ \E c \in Conns : WsUnknown(c)
    \/ Frames /\ \E c \in Conns : WsHeartbeat(c)
    \/ Frames /\ \E c \in Conns, u \in Users, p \in Payloads : WsPixelUpdate(c, u, p)

SpecSocket == Init /\ [][NextSocket]_vars

\* SpecSnapshot: snapshot requests next to the edit pipeline of one
\* connection: GET /canvas with every outcome of the cache and table calls,
\* before and after flushes, while the cached canvas expires.
Snapshots == ops.http < MaxSnapshots

NextSnapshot ==
    \/ Connect("c1")
    \/ Frames /\ \E u \in Users, p \in AuditPayloads : WsPixelUpdate("c1", u, p)
    \/ \E f \in Faults : FlushTick(f, 0)
    \/ \E ok \in BOOLEAN : BroadcastStep(ok)
    \/ Snapshots /\ \E f \in Faults : GetCanvas(f)
    \/ Snapshots /\ \E f \in Faults : GetCanvasReadRaises(f)
    \/ ExpireCanvasCache

SpecSnapshot == Init /\ [][NextSnapshot]_vars

\* ------------------------------------------------- rate limiter specifications
\* The clock advances by step, up to horizon.
Tick(step, horizon) ==
    /\ now + step <= horizon
    /\ now' = now + step
    /\ UNCHANGED <<buckets, counters, shadow, win, socketVars, storeVars, historyVars,
                   pixel_update_queue, task, batch_task, ops>>

\* A window of the given length starts to count the admissions.
OpenWindow ==
    /\ win.start = -1
    /\ win' = [win EXCEPT !.start = now]
    /\ UNCHANGED <<now, buckets, counters, shadow, socketVars, storeVars, historyVars,
                   pixel_update_queue, task, batch_task, ops>>

\* The admissions counted so far, after one more call at time now: in the
\* window [start, start + length] (last instant included when closed), and
\* under the counter key that is live (key).
Counted(allowed, length, closed, fresh) ==
    [start |-> win.start,
     admits |-> IF /\ allowed
                   /\ win.start >= 0
                   /\ \/ now < win.start + length
                      \/ closed /\ now = win.start + length
                THEN win.admits + 1 ELSE win.admits,
     key |-> IF ~allowed THEN win.key
             ELSE IF fresh THEN 1 ELSE win.key + 1]

\* SpecBucket: the token bucket of one user under a clock that advances by
\* the time one token takes to refill.
BucketStep == MsPerSecond \div refill_rate

BucketCall(u) ==
    LET r == BucketCheck(buckets[u], now)
    IN  /\ buckets' = [buckets EXCEPT ![u] = r.bucket]
        /\ shadow' = [shadow EXCEPT ![u] = BucketCheck(@, now).bucket]
        /\ win' = Counted(r.allowed, MsPerSecond, TRUE, FALSE)
        /\ UNCHANGED <<now, counters, socketVars, storeVars, historyVars,
                       pixel_update_queue, task, batch_task, ops>>

NextBucket ==
    \/ Tick(BucketStep, BucketHorizon)
    \/ OpenWindow
    \/ \E u \in Users : BucketCall(u)

SpecBucket == Init /\ [][NextBucket]_vars

\* SpecMinute: check_pixel_rate_limit of one user with the cache reachable,
\* under a clock that advances by a sixth of the counter window.
MinuteStep == (window * MsPerSecond) \div 6

RateCall(u, rf) ==
    LET r == CheckPixelRateLimit(buckets[u], counters[u], now, rf)
        fresh == LiveCount(counters[u], now) = 0
    IN  /\ buckets' = [buckets EXCEPT ![u] = r.bucket]
        /\ shadow' = [shadow EXCEPT
                         ![u] = CheckPixelRateLimit(@, counters[u], now, rf).bucket]
        /\ counters' = [counters EXCEPT ![u] = r.counter]
        /\ win' = Counted(r.allowed, window * MsPerSecond, FALSE, fresh)
        /\ UNCHANGED <<now, socketVars, storeVars, historyVars,
                       pixel_update_queue, task, batch_task, ops>>

NextMinute ==
    \/ Tick(MinuteStep, MinuteHorizon)
    \/ OpenWindow
    \/ \E u \in Users : RateCall(u, RedisUp)

SpecMinute == Init /\ [][NextMinute]_vars

\* SpecBurst: one new user sends a burst of valid edits on one connection
\* within one batching window, whatever the cache does.
BurstStep == flush_interval_ms \div 5
BurstPayload == [x |-> 0, y |-> 0, color |-> Red, tool |-> "brush", ts |-> TRUE]

BurstSend(c, u, rf) ==
    /\ ops' = [ops EXCEPT !.msgs = @ + 1]
    /\ HandlePixelUpdate(c, u, BurstPayload, now, rf)
    /\ UNCHANGED <<now, win, storeVars, applied, postFlush, bdone, published,
                   handed, response, task, batch_task>>

NextBurst ==
    \/ Connect("c1")
    \/ Tick(BurstStep, flush_interval_ms)
    \/ ops.msgs < BurstN /\ \E rf \in RedisFaults : BurstSend("c1", "u1", rf)

SpecBurst == Init /\ [][NextBurst]_vars

\* SpecIngress: one user sends valid edits on one connection for long
\* enough to exhaust the minute counter, with the cache failing in any way
\* during the first MaxMsgs frames.  The user sends until the bucket has
\* denied an edit, then waits: the clock advances, by the time a bucket
\* takes to refill whole, when the bucket holds less than one token.
IngressStep == (burst_capacity * MsPerSecond) \div refill_rate

BucketEmpty(u) == IsSome(buckets[u]) /\ Val(buckets[u]).tokens < TokenScale

\* The last frame the connection got is the reject of a bucket denial at this instant.
JustDenied(c, u) ==
    /\ BucketEmpty(u) /\ Val(buckets[u]).last_refill = now
    /\ outbox[c] # <<>>
    /\ outbox[c][Len(outbox[c])].reason = "Rate limit exceeded."

IngressFaults == IF ops.msgs < MaxMsgs THEN RedisFaults ELSE {RedisUp}

NextIngress ==
    \/ Connect("c1")
    \/ BucketEmpty("u1") /\ Tick(IngressStep, IngressHorizon)
    \/ /\ ops.msgs < IngressN /\ ~JustDenied("c1", "u1")
       /\ \E rf \in IngressFaults : BurstSend("c1", "u1", rf)

SpecIngress == Init /\ [][NextIngress]_vars

\* SpecSweep: the token bucket of one user under calls of check_rate_limit
\* and sweeps of cleanup_old_buckets at any time, next to the bucket the
\* same calls leave without any sweep.  The clock advances by one second
\* while the bucket was used within its refill time, and by half the idle
\* time of the sweep at any time.
SweepShort == MsPerSecond
SweepLong == (idle_bucket_ttl * MsPerSecond) \div 2

\* The bucket of the user was used less than its refill time ago.
RecentlyUsed(u) ==
    /\ IsSome(shadow[u])
    /\ (now - Val(shadow[u]).last_refill) * refill_rate
         < burst_capacity * MsPerSecond

\* ws_rate_limiter.check_rate_limit(user_id)
SweepCall(u) ==
    /\ buckets' = [buckets EXCEPT ![u] = BucketCheck(@, now).bucket]
    /\ shadow' = [shadow EXCEPT ![u] = BucketCheck(@, now).bucket]
    /\ UNCHANGED <<now, counters, win, socketVars, storeVars, historyVars,
                   pixel_update_queue, task, batch_task, ops>>

\* ws_rate_limiter.cleanup_old_buckets()
Sweep ==
    /\ buckets' = [u \in Users |-> CleanupBucket(buckets[u], now)]
    /\ UNCHANGED <<now, counters, shadow, win, socketVars, storeVars,
                   historyVars, pixel_update_queue, task, batch_task, ops>>

NextSweep ==
    \/ RecentlyUsed("u1") /\ Tick(SweepShort, SweepHorizon)
    \/ Tick(SweepLong, SweepHorizon)
    \/ \E u \in Users : SweepCall(u)
    \/ Sweep

SpecSweep == Init /\ [][NextSweep]_vars

\* ------------------------------------------------- properties
IsBulk(fr) == fr.type = "pixel:bulk_update"
IsReject(fr) == fr.type = "pixel:reject"

\* The bitmap a snapshot request answers with when get_canvas_state returns st.
SnapshotBitmap(st) == IF IsSome(st) THEN Val(st).bitmap ELSE ZeroBitmap

\* C1: after a flush that broadcasts, the broadcast hash is the SHA-256 of
\* the canvas bytes a snapshot read returns right after that flush.
C1_HashConsistency ==
    IsSome(postFlush) =>
        Val(postFlush).hash = Sha256(SnapshotBitmap(Val(postFlush).snapshot))

\* The numbers of the batches a connection has received, and of the batch
\* whose broadcast is under way.
Delivered(c) == {outbox[c][i].batch : i \in {j \in 1 .. Len(outbox[c]) : IsBulk(outbox[c][j])}}
InFlight == IF task.pc = "sending" THEN {Val(task.msg).batch} ELSE {}

\* C2: every subscriber receives the broadcasts in the order of their
\* batches, and once the broadcast of a batch has started, the broadcast of
\* every earlier batch that was sent to anyone has returned.
C2_TotalOrder ==
    /\ \A c \in Conns : \A i, j \in 1 .. Len(outbox[c]) :
          (i < j /\ IsBulk(outbox[c][i]) /\ IsBulk(outbox[c][j]))
              => outbox[c][i].batch < outbox[c][j].batch
    /\ \A k \in InFlight \cup UNION {Delivered(c) : c \in Conns} :
          \A m \in UNION {Delivered(c) : c \in Conns} : m < k => m \in bdone

\* C2 witness: two subscribers have both received two consecutive batches.
C2_Witness ==
    \E k \in 1 .. MaxMsgs :
        /\ {k, k + 1} \subseteq Delivered("c1")
        /\ {k, k + 1} \subseteq Delivered("c2")

\* The persisted color of a coordinate.
StoredColor(db, p) == IF IsSome(db) THEN Decompress(Val(db).bitmap)[p] ELSE ZeroBitmap[p]

\* C3: while a lock of the table covers a coordinate, a flush leaves the
\* stored color of the coordinate as it is, unless the batch holds an edit
\* of the coordinate that was submitted while it was not locked.
C3_LockSafety ==
    [][ops'.flushes # ops.flushes =>
          \A p \in Coords :
              Covers(db_locks, p[1], p[2]) =>
                  \/ StoredColor(db_canvas', p) = StoredColor(db_canvas, p)
                  \/ \E i \in 1 .. Len(pixel_update_queue) :
                        /\ pixel_update_queue[i].x = p[1]
                        /\ pixel_update_queue[i].y = p[2]
                        /\ pixel_update_queue[i].free]_vars

\* C4: an edit read from a connection that is still open and registered is
\* waiting in the queue or in the batch being broadcast, or was answered with
\* a pixel:reject, or was applied and is carried by a pixel:bulk_update its
\* sender has received.
C4_NoSilentDrop ==
    \A e \in received :
        (handler[e.conn] = "open" /\ e.conn \in active_connections) =>
            \/ e.id \in IdSet(pixel_update_queue)
            \/ task.pc = "sending" /\ e.id \in IdSet(task.batch)
            \/ e.id \in rejected
            \/ /\ e.id \in applied
               /\ \E i \in 1 .. Len(outbox[e.conn]) :
                     /\ IsBulk(outbox[e.conn][i])
                     /\ \E j \in 1 .. Len(outbox[e.conn][i].ids) :
                           outbox[e.conn][i].ids[j] = e.id

\* C5: check_pixel_rate_limit admits at most max_pixels edits of a user in
\* any window of 60 s, wherever the window starts.
C5_RollingWindow == win.admits <= max_pixels

\* C5 as amended: check_pixel_rate_limit admits at most max_pixels edits of
\* a user under one counter key, that is in the 60 s from the first
\* increment of the key to its expiry.
C5_KeyWindow == win.key <= max_pixels

\* C5 witness: max_pixels edits were admitted under the live key and a
\* further one was counted and denied.
C5_Witness ==
    /\ win.key = max_pixels
    /\ LiveCount(counters["u1"], now) > max_pixels

\* C6: the token bucket admits at most refill_rate + burst_capacity edits
\* of a user in any window of one second.
C6_SecondWindow == win.admits <= refill_rate + burst_capacity

\* C6 witness: a window of one second with refill_rate + burst_capacity admissions.
C6_Witness == win.admits = refill_rate + burst_capacity

\* C7: of the edits a new user sends within one batching window, the first
\* burst_capacity are in the queue in the order sent, and every later one
\* was answered with a pixel:reject and is not in the queue.
C7_BurstLimit ==
    LET n == Cardinality(received)
    IN  /\ Ids(pixel_update_queue) = [i \in 1 .. Min(n, burst_capacity) |-> i]
        /\ rejected = {id \in 1 .. n : id > burst_capacity}
        /\ \A id \in rejected :
              \E i \in 1 .. Len(outbox["c1"]) :
                  IsReject(outbox["c1"][i]) /\ outbox["c1"][i].ids = <<id>>

\* C7 witness: the whole burst was sent, burst_capacity edits are queued and
\* the others were rejected.
C7_Witness ==
    /\ Cardinality(received) = BurstN
    /\ Len(pixel_update_queue) = burst_capacity
    /\ Cardinality(rejected) = BurstN - burst_capacity

\* C8: a pixel:update whose payload fails validation is answered with a
\* pixel:reject of reason "invalid", is not enqueued, and leaves the
\* connection open and registered.
C8_InvalidRejected ==
    [][\A c \in Conns, u \in Users, p \in Payloads :
          (~ValidPixelUpdate(p) /\ WsPixelUpdate(c, u, p)) =>
              /\ outbox'[c] = Append(outbox[c],
                                     RejectFrame("invalid", Cardinality(received) + 1))
              /\ pixel_update_queue' = pixel_update_queue
              /\ handler'[c] = "open"
              /\ c \in active_connections']_vars

\* C9: a frame that is not JSON, or whose type is unknown, gets no reply
\* and leaves the connection open and registered.
C9_BadFrameDropped ==
    [][\A c \in Conns :
          (WsInvalidJson(c) \/ WsUnknown(c)) =>
              /\ outbox' = outbox
              /\ handler'[c] = "open"
              /\ c \in active_connections']_vars

\* C10: a valid, admitted pixel:update of a coordinate that a lock covers is
\* answered with a pixel:reject of reason "Position locked" and is not enqueued.
C10_LockedRejected ==
    [][\A c \in Conns, u \in Users, p \in Payloads :
          (/\ ValidPixelUpdate(p)
           /\ Covers(db_locks, p.x, p.y)
           /\ WsPixelUpdate(c, u, p)) =>
              /\ outbox'[c] = Append(outbox[c],
                                     RejectFrame("Position locked", Cardinality(received) + 1))
              /\ pixel_update_queue' = pixel_update_queue]_vars

\* The reasons of the pixel:reject frames a connection has received.
RejectReasons(c) ==
    {outbox[c][i].reason : i \in {j \in 1 .. Len(outbox[c]) : IsReject(outbox[c][j])}}

\* C11: an edit is admitted iff the token bucket admits it and then the
\* window counter admits it.  When the bucket denies, the window counter is
\* not consulted; when either denies, the sender gets a pixel:reject with
\* the message of the limiter that denied, the queue is left as it is and
\* the connection stays open and registered.  An admitted valid edit is
\* appended to the queue and nothing is sent.
C11_CompositeLimit ==
    [][\A c \in Conns, u \in Users, rf \in RedisFaults :
          BurstSend(c, u, rf) =>
              LET id == Cardinality(received) + 1
                  tb == BucketCheck(buckets[u], now)
                  inc == IncrementPixelCount(counters[u], now, rf)
              IN  IF ~tb.allowed
                  THEN /\ outbox'[c] = Append(outbox[c],
                                              RejectFrame("Rate limit exceeded.", id))
                       /\ counters' = counters
                       /\ pixel_update_queue' = pixel_update_queue
                       /\ handler'[c] = "open" /\ c \in active_connections'
                  ELSE IF ~WindowAdmits(inc.count)
                  THEN /\ outbox'[c] = Append(outbox[c],
                                              RejectFrame("Minute rate limit exceeded.", id))
                       /\ pixel_update_queue' = pixel_update_queue
                       /\ handler'[c] = "open" /\ c \in active_connections'
                  ELSE /\ Len(pixel_update_queue') = Len(pixel_update_queue) + 1
                       /\ pixel_update_queue'[Len(pixel_update_queue')].id = id
                       /\ outbox' = outbox]_vars

\* C11 witness: the connection, still open, has been denied by the token
\* bucket and by the window counter, and edits were admitted.
C11_Witness ==
    /\ RejectReasons("c1") = {"Rate limit exceeded.", "Minute rate limit exceeded."}
    /\ handler["c1"] = "open"
    /\ pixel_update_queue # <<>>

\* C12: the step that reads a heartbeat from an open connection appends
\* exactly one heartbeat:ack to the frames sent on that connection, before
\* the handler reads again, sends nothing to any other connection, and
\* leaves the queue, the token buckets and the window counters as they are.
C12_HeartbeatAck ==
    [][\A c \in Conns :
          WsHeartbeat(c) =>
              /\ outbox'[c] = Append(outbox[c], AckFrame)
              /\ \A d \in Conns \ {c} : outbox'[d] = outbox[d]
              /\ handler'[c] = "open" /\ c \in active_connections'
              /\ pixel_update_queue' = pixel_update_queue
              /\ buckets' = buckets /\ counters' = counters]_vars

\* C12 witness: a connection whose user has a bucket and a queued edit has
\* been answered a heartbeat.
C12_Witness ==
    \E c \in Conns :
        /\ outbox[c] # <<>> /\ outbox[c][Len(outbox[c])] = AckFrame
        /\ pixel_update_queue # <<>>
        /\ IsSome(buckets["u1"])

\* The concatenation of a sequence of sequences.
RECURSIVE Concat(_)
Concat(ss) == IF ss = <<>> THEN <<>> ELSE Head(ss) \o Concat(Tail(ss))

\* C13: the edits of the pixel:bulk_update messages built so far, batch
\* after batch, followed by the edits still in the queue, are the admitted
\* submissions in the order they were appended to the queue.
C13_SubmissionOrder ==
    Concat(published) \o Ids(pixel_update_queue) = admitted

\* C14: a flush that persists builds exactly one pixel:bulk_update, and the
\* edits it carries are the edits the flush wrote to the bitmap (acks), in
\* arrival order: an edit skipped because its position is locked is not
\* among them.
C14_BulkIsApplied ==
    [][ops'.flushes # ops.flushes =>
          \/ published' = published /\ task'.e # ""
          \/ /\ published' = Append(published, Ids(task'.acks))
             /\ task'.e = ""]_vars

\* The audit entries of a sequence of edits, and a sequence without its last element.
AuditsOf(edits) == [i \in 1 .. Len(edits) |-> AuditOf(edits[i])]
Front(q) == SubSeq(q, 1, Len(q) - 1)

\* C15: a flush appends to the audit table one entry for each edit it wrote
\* to the bitmap, in arrival order, and nothing else, so none for an edit
\* it skipped because the position is locked; when an append raises, the
\* batch ends there and the entries are those of the edits written before.
C15_AuditPerApplied ==
    [][ops'.flushes # ops.flushes =>
          audit' = audit \o AuditsOf(IF task'.e = "ClientError(audit)"
                                     THEN Front(task'.acks) ELSE task'.acks)]_vars

\* C15 witness: a flush of two edits skipped one for a lock, wrote the
\* other and appended its audit entry.
C15_Witness ==
    /\ Len(task.batch) = 2 /\ Len(task.acks) = 1 /\ task.e = ""
    /\ audit = AuditsOf(task.acks)

\* C16: a flush whose put_item of save_canvas_state fails builds no
\* pixel:bulk_update and sends nothing, marks no edit as applied, leaves
\* the table item as it is, and whatever a later get_canvas_state returns
\* is a state that get_canvas_state could return before the flush.
C16_PersistFailure ==
    [][\A f \in Faults :
          (ops'.flushes # ops.flushes /\ ~f.dw /\ FlushTick(f, 0)) =>
              /\ published' = published /\ outbox' = outbox
              /\ task'.pc = "sleep" /\ task'.msg = None
              /\ applied' = applied
              /\ db_canvas' = db_canvas
              /\ \A g \in Faults : \E h \in Faults :
                    GetCanvasState(cache_canvas', db_canvas', g).state
                        = GetCanvasState(cache_canvas, db_canvas, h).state]_vars

\* C16 witness: with a subscriber connected, a flush wrote an edit to its
\* bitmap and its put_item failed.
C16_Witness ==
    /\ task.e = "ClientError(canvas)" /\ task.acks # <<>>
    /\ active_connections # {}

\* C17: when put_item of save_canvas_state fails, the flush leaves the
\* edits of its batch at the head of the queue, in order, for the next
\* flush to retry (the first of the retries the claim speaks of).
C17_RequeueOnFailure ==
    [][(ops'.flushes # ops.flushes /\ task'.e = "ClientError(canvas)") =>
          /\ Len(pixel_update_queue') >= Len(task'.batch)
          /\ SubSeq(pixel_update_queue', 1, Len(task'.batch)) = task'.batch]_vars

\* C18: the flush loop does not wait on a subscriber: although the send to
\* the stalled subscriber never completes, a broadcast under way ends, the
\* edits in the queue are flushed, and a subscriber other than the stalled
\* one that the broadcast started with gets the batch, unless its own send
\* raised or the iteration over the set raised.
C18_NoWaitOnSubscriber ==
    /\ (task.pc = "sending") ~> (task.pc = "sleep")
    /\ (pixel_update_queue # <<>>) ~> (pixel_update_queue = <<>>)
    /\ \A c \in Conns \ {StalledConn} : \A n \in 1 .. MaxMsgs :
          (task.pc = "sending" /\ Val(task.msg).batch = n /\ c \in task.members)
              ~> \/ n \in Delivered(c)
                 \/ c \in task.disconnected \/ c \notin active_connections
                 \/ task.e = "RuntimeError"

\* C19: a broadcast ends without an error, and every connection that was
\* in active_connections when it started and is still in it, open, when it
\* ends has been sent the message, whatever was added to or removed from
\* the set between two sends.
C19_TolerantBroadcast ==
    [][(task.pc = "sending" /\ task'.pc = "sleep") =>
          /\ task'.e = ""
          /\ \A c \in task.members \cap active_connections' :
                handler'[c] = "open" =>
                    \E i \in 1 .. Len(outbox'[c]) : outbox'[c][i] = Val(task.msg)]_vars

\* C20: when the shutdown ends the flush task, no edit is left in the
\* queue: every edit that was in it when the shutdown began has been
\* taken by a final flush.
C20_FinalFlush ==
    [][batch_task' = "done" /\ batch_task # "done" =>
          pixel_update_queue' = <<>>]_vars

\* C21: the flush task stops cleanly: wherever the task is suspended when
\* shutdown cancels it (in its sleep between two ticks, or in a send of a
\* broadcast), the cancellation ends the task, so that the await of the
\* task in lifespan returns.
C21_CleanStop ==
    [][batch_task = "running" /\ batch_task' # "running"
         => batch_task' = "done" /\ task'.pc = "cancelled"]_vars

\* C22: every lock mutation invalidates the cached lock list: once
\* add_region_lock or remove_region_lock has returned, a lookup whose cache
\* and table calls succeed covers every position of an added lock, and
\* covers no position that no lock of the table covers any more, whatever
\* list was cached before.
C22_LockCacheInvalidated ==
    [][\A l \in LockRects :
         LET seen == GetRegionLocks(cache_locks', db_locks', NoFault).locks
         IN  /\ AddRegionLock(l) => Covers(seen, l.x1, l.y1)
             /\ RemoveRegionLock(l) =>
                  \A p \in Coords : ~Covers(db_locks', p[1], p[2])
                                      => ~Covers(seen, p[1], p[2])]_vars

\* C29: the minute counter of a user always carries its expiry: whenever
\* the counter key of a user exists in the cache it has a TTL (set at the
\* first increment of the window), also when a cache call has failed.
C29_CounterHasTTL ==
    \A u \in Users : IsSome(counters[u]) => Val(counters[u]).expire_at # NoTTL

\* The canvas bitmaps the store holds: that of the table item and that of
\* the cache entry.
CanvasBytes ==
    (IF IsSome(db_canvas) THEN {Decompress(Val(db_canvas).bitmap)} ELSE {})
    \cup (IF IsSome(cache_canvas) THEN {Unpickle(Val(cache_canvas)).bitmap} ELSE {})

\* C24: the stored canvas is written only by the flush path: a step that is
\* no flush tick (a snapshot request, a frame of a client, a broadcast send,
\* the expiry of the cache entry) leaves the table item as it is and puts
\* no canvas bytes into the cache that the store did not hold before, also
\* when the read of the canvas misses or fails.
C24_OnlyFlushWrites ==
    [][ops'.flushes = ops.flushes
         => /\ db_canvas' = db_canvas
            /\ IsSome(cache_canvas')
                 => Unpickle(Val(cache_canvas')).bitmap \in CanvasBytes]_vars

\* C25: GET /canvas, its cache and table calls succeeding: when no canvas
\* is stored the answer is 200 with a canvas of the canvas size whose
\* bitmap is all zero and whose hash is the SHA-256 of that bitmap, the
\* request saves that canvas, and the stored canvas is then the one a
\* following request reads; when a canvas is stored the answer is that
\* canvas and the request saves nothing.
C25_FirstSnapshot ==
    [][GetCanvas(NoFault)
         => LET stored == GetCanvasState(cache_canvas, db_canvas, NoFault).state
                r == Val(response')
            IN  /\ r.status = 200
                /\ r.width = canvas_width /\ r.height = canvas_height
                /\ IF stored = None
                   THEN /\ r.bitmap = ZeroBitmap /\ r.hash = Sha256(ZeroBitmap)
                        /\ r.saved
                        /\ GetCanvasState(cache_canvas', db_canvas', NoFault).state
                             = Some([bitmap |-> ZeroBitmap,
                                     hash |-> Sha256(ZeroBitmap)])
                   ELSE /\ r.bitmap = Val(stored).bitmap
                        /\ r.hash = Val(stored).hash
                        /\ ~r.saved
                        /\ db_canvas' = db_canvas]_vars

\* Two requests were answered, no flush has run, the store holds the
\* all-zero canvas and the last request returned it without saving.
C25_Witness ==
    /\ ops.http = 2 /\ ops.flushes = 0
    /\ IsSome(db_canvas) /\ Decompress(Val(db_canvas).bitmap) = ZeroBitmap
    /\ IsSome(response)
    /\ Val(response).status = 200 /\ ~Val(response).saved
    /\ Val(response).bitmap = ZeroBitmap

\* C26: GET /canvas handles a database error: when a call that reads the
\* canvas raises (the cache read, or the table read with a ClientError or
\* with any other error) and the table can be written, the request is
\* answered with status 200 and a canvas of the canvas size.
C26_SnapshotSurvivesReadError ==
    [][\A f \in Faults :
         \/ GetCanvasReadRaises(f)
         \/ GetCanvas(f) /\ (~f.cr \/ ~f.dr) /\ f.dw
         => /\ Val(response').status = 200
            /\ Val(response').width = canvas_width]_vars

\* A redis call of increment_pixel_count fails: the INCR, or the EXPIRE
\* that follows the first increment of a key.
CacheCallFails(cnt, t, rf) ==
    ~rf.incr \/ (LiveCount(cnt, t) = 0 /\ ~rf.expire)

\* C23: the minute-window limiter fails open: in every state, a check whose
\* cache call fails admits the edit exactly when the token bucket admits
\* it, and a denial names the bucket, however many edits the counter holds.
C23_WindowFailsOpen ==
    \A u \in Users, rf \in RedisFaults :
        CacheCallFails(counters[u], now, rf)
          => LET rl == CheckPixelRateLimit(buckets[u], counters[u], now, rf)
             IN  /\ rl.allowed = BucketCheck(buckets[u], now).allowed
                 /\ ~rl.allowed => rl.reason = "Rate limit exceeded."

\* More edits than the window allows were admitted within one window: some
\* of them went through checks whose cache call failed and were not counted.
C23_Witness ==
    /\ Len(admitted) > max_pixels
    /\ Len(admitted) > LiveCount(counters["u1"], now)
    /\ now < window * MsPerSecond

\* The canvas before a batch: what the cache or else the table holds, all
\* zeros when neither holds a canvas.
PreBatchBitmap ==
    IF IsSome(cache_canvas) THEN Unpickle(Val(cache_canvas)).bitmap
    ELSE IF IsSome(db_canvas) THEN Decompress(Val(db_canvas).bitmap)
    ELSE ZeroBitmap

\* The edits of a batch folded into a bitmap in arrival order, from the
\* i-th on, without those whose position a lock covers.
RECURSIVE FoldEdits(_, _, _, _)
FoldEdits(bitmap, batch, i, locks) ==
    IF i > Len(batch) THEN bitmap
    ELSE LET u == batch[i]
             value == IF u.tool = "eraser" THEN <<255, 255, 255>>
                      ELSE ColorRGB(u.color)
         IN  FoldEdits(IF Covers(locks, u.x, u.y) THEN bitmap
                       ELSE [bitmap EXCEPT ![<<u.x, u.y>>] = value],
                       batch, i + 1, locks)

\* C27: a flush whose cache and table calls all succeed saves the pre-batch
\* bitmap with the edits of the batch folded in, in arrival order and
\* without the edits whose position is locked: every touched coordinate
\* ends with the value of the last edit to it, every other coordinate
\* keeps its pre-batch value.
C27_SavedBitmapIsFold ==
    [][FlushTick(NoFault, 0)
         => /\ IsSome(db_canvas')
            /\ Decompress(Val(db_canvas').bitmap)
                 = FoldEdits(PreBatchBitmap, pixel_update_queue, 1, db_locks)]_vars

\* C28: the buffer swap of a flush tick is atomic with respect to ingress:
\* the edits appended to the queue so far are, in order, those of the
\* batches handed to process_pixel_batch followed by those still queued, so
\* that every edit is in exactly one batch or still waiting, none is lost
\* and none is in two batches, also when it was appended while a flush was
\* awaiting its broadcast.
C28_AtomicSwap ==
    admitted = Concat(handed) \o Ids(pixel_update_queue)

\* A flush tick has swapped the buffer and awaits a send of its broadcast,
\* and an edit appended meanwhile waits in the queue for the next batch.
C28_Witness ==
    /\ task.pc = "sending"
    /\ handed = <<Ids(task.batch)>>
    /\ pixel_update_queue # <<>>
    /\ Len(admitted) = Len(task.batch) + Len(pixel_update_queue)

\* C30: a failure while a batch is processed never stops the flush loop:
\* once process_pixel_batch has raised (in the loop over the edits, in an
\* audit append, in the persistence write or in the broadcast) the task is
\* back in its sleep, and whenever the queue is not empty then the next
\* tick can capture and process it.
C30_LoopSurvivesFailure ==
    task.e # ""
      => /\ task.pc = "sleep" /\ batch_task = "running"
         /\ pixel_update_queue # <<>> => ENABLED StallTick

\* The first batch failed (it was handed over and never published) and a
\* later batch was captured and processed up to its broadcast.
C30_Witness ==
    /\ Len(handed) = 2
    /\ published = <<handed[2]>>
    /\ 2 \in bdone

\* C31: when a broadcast ends, every subscriber whose send failed during it
\* (it was visited and the message is not in its outbox) has been removed
\* from active_connections, no other subscriber has been removed by the
\* broadcast, and when a send failed every other subscriber of the
\* broadcast that is still connected has been sent the message.
C31_SendErrorRemovesOnlyThat ==
    [][(task.pc = "sending" /\ task'.pc = "sleep") =>
          LET msg == Val(task.msg)
              got(c) == \E i \in 1 .. Len(outbox'[c]) : outbox'[c][i] = msg
              visited == task.visited \cup {Val(task.cur)}
              failed == {c \in visited : ~got(c)}
          IN  /\ failed \cap active_connections' = {}
              /\ active_connections \ active_connections' \subseteq failed
              /\ failed # {} =>
                   \A c \in (task.members \ failed) \cap active_connections' :
                       handler'[c] = "open" => got(c)]_vars

\* The bitmap of the canvas a snapshot read returns when its cache and
\* table calls succeed (all zeros when it finds no canvas).
StoredSnapshot ==
    LET st == GetCanvasState(cache_canvas, db_canvas, NoFault).state
    IN  IF IsSome(st) THEN Val(st).bitmap ELSE ZeroBitmap

\* C32: flushes accumulate: a flush that persists its batch takes the
\* canvas a snapshot read returns from what it was to that with the applied
\* edits of the batch folded in, and no other step changes it; so the
\* snapshot is always the all-zero canvas with the applied edits of every
\* persisted batch folded in flush order, whatever the cache and table
\* reads did in between.
C32_FlushesAccumulate ==
    [][IF published' # published
       THEN StoredSnapshot' = FoldEdits(StoredSnapshot, task'.acks, 1, {})
       ELSE StoredSnapshot' = StoredSnapshot]_vars

\* C33: the audit table never records an edit that did not take effect:
\* every entry of the table is that of an edit which a flush wrote into a
\* canvas it then persisted, also when save_canvas_state or a later audit
\* append of the batch failed.
C33_AuditOnlyPersisted ==
    \A i \in 1 .. Len(audit) : audit[i].id \in applied

\* C34: sweeping idle buckets is invisible: at every time the next
\* check_rate_limit of a user gives the same answer and leaves the same
\* tokens on the buckets that were swept at any points as on the buckets
\* of the same calls that were never swept, so every later answer is the
\* same too.
C34_SweepInvisible ==
    \A u \in Users :
        LET swept == BucketCheck(buckets[u], now)
            kept == BucketCheck(shadow[u], now)
        IN  /\ swept.allowed = kept.allowed
            /\ Val(swept.bucket).tokens = Val(kept.bucket).tokens

\* The sweep has dropped the bucket of a user who had used it up.
C34_Witness ==
    /\ buckets["u1"] = None
    /\ IsSome(shadow["u1"])
    /\ Val(shadow["u1"]).tokens < TokenScale
====
